---- MODULE Spec2Model ----
(***************************************************************************)
(* The poker server (socket handlers, betting/phase state machine,         *)
(* settlement) and the 5-card hand evaluator, as a state machine.          *)
(*                                                                         *)
(* One session is modelled. Indices into game.players are 0-based as in    *)
(* the source (ps[i + 1] is the seat at index i). Socket ids are 1, 2, ... *)
(* in order of connection; 0 stands for null.                              *)
(***************************************************************************)
EXTENDS Integers, Sequences, FiniteSets, TLC

VARIABLES
    game,       \* the game object (kept by the timer closure after games.delete)
    games,      \* ids of the games in the registry Map
    players,    \* the connection Map: socket id -> game id
    timers,     \* pending setTimeout callbacks of resetGame
    nextSock,   \* id the next new connection gets
    hands,      \* hands begun so far
    acts,       \* player actions accepted so far
    ev,         \* the last event the server accepted
    handA, handB, evalA, evalB   \* evaluator inputs and results

vars == <<game, games, players, timers, nextSock, hands, acts, ev, handA, handB, evalA, evalB>>
gameVars == <<game, games, players, timers>>
evalVars == <<handA, handB, evalA, evalB>>

----------------------------------------------------------------------------
\* Bounds of the model
MaxSockets == 3     \* connections ever opened
MaxHands == 2       \* hands begun (by startGame or by the restart timer)
NShuffles == 1      \* outcomes of shuffleDeck explored per createDeck
MaxActions == 2     \* player actions accepted

\* Program constants
GameId == 1
InitialChips == 1000
SmallBlind == 5
BigBlind == 10
MaxPlayers == 8
DeckSize == 52

NullId == 0

\* Raise amounts a client sends to a game whose table bet is currentBet and
\* whose seat to act has chips: 0 (invalid), just below the minimum raise, the
\* minimum raise (at least the big blind), the whole stack, and more than the
\* stack
RaiseAmounts(currentBet, chips) ==
    {0, 2 * currentBet - 1, IF 2 * currentBet > BigBlind THEN 2 * currentBet ELSE BigBlind,
     chips, chips + 1}
Actions == {"fold", "check", "call", "raise", "bet"}

Min(S) == CHOOSE x \in S : \A y \in S : x <= y
Max(S) == CHOOSE x \in S : \A y \in S : x >= y

----------------------------------------------------------------------------
\* Cards: id c in 0..51 is the card pushed c-th by createDeck
\* (suit c \div 13 of hearts, diamonds, clubs, spades; rank c % 13 of A, 2, ..., K)
Suit(c) == c \div 13
rankValues(c) == IF c % 13 = 0 THEN 14 ELSE (c % 13) + 1

\* shuffleDeck: the k-th explored permutation of the 52 cards
\* (the first deals a flush to the board of two seats, which both seats play,
\* and to the third of three seats alone)
ShuffleMult == <<3, 7, 11, 17, 19, 23>>
shuffleDeck(k) ==
    [i \in 1..DeckSize |->
        ((i - 1) * ShuffleMult[((k - 1) % Len(ShuffleMult)) + 1] + 14 * k) % DeckSize]

createDeck(k) == shuffleDeck(k)

\* A deal that leaves the dealt cards in the deck
dealCards_keep(deck, count) ==
    [cards |-> SubSeq(deck, 1, count), remainingDeck |-> deck]

dealCards(deck, count) ==
    [cards |-> SubSeq(deck, 1, count),
     remainingDeck |-> SubSeq(deck, count + 1, Len(deck))]

----------------------------------------------------------------------------
\* The game object and the seats

createGame(k) ==
    [players |-> <<>>,
     deck |-> createDeck(k),
     communityCards |-> <<>>,
     pot |-> 0,
     currentBet |-> 0,
     phase |-> "waiting",
     currentPlayerIndex |-> 0,
     dealerIndex |-> 0,
     lastRaisePlayerId |-> NullId]

newPlayer(sock, dealer, pos) ==
    [id |-> sock,
     chips |-> InitialChips,
     cards |-> <<>>,
     bet |-> 0,
     folded |-> FALSE,
     isDealer |-> dealer,
     isCurrentTurn |-> FALSE,
     isConnected |-> TRUE,
     position |-> pos,
     isWinner |-> FALSE,
     handDescription |-> ""]

NoGame == createGame(1)

Event(op, sock, action, amount, playerId) ==
    [op |-> op, sock |-> sock, action |-> action, amount |-> amount, playerId |-> playerId]

\* games.get(players.get(socket.id).gameId): is the socket routed to a live game
Routed(sock) == sock \in DOMAIN players /\ players[sock] \in games

\* game.players.findIndex(p => p.id === id): 0-based, -1 when absent
findIndex(ps, id) ==
    LET hits == { i \in 0..(Len(ps) - 1) : ps[i + 1].id = id }
    IN IF hits = {} THEN -1 ELSE Min(hits)

\* Sockets that can send an event: those that ever connected and have not
\* disconnected, and the next new connection
Connected == DOMAIN players
Fresh == IF nextSock <= MaxSockets THEN {nextSock} ELSE {}

----------------------------------------------------------------------------
\* Hand evaluation (evaluateFiveCardHand is the same text in the server and
\* in lib/deck.ts)

RECURSIVE InsertAsc(_, _)
InsertAsc(x, s) ==
    IF s = <<>> THEN <<x>>
    ELSE IF x <= Head(s) THEN <<x>> \o s
    ELSE <<Head(s)>> \o InsertAsc(x, Tail(s))

\* cards.map(...).sort((a, b) => a - b)
RECURSIVE SortAsc(_)
SortAsc(s) == IF s = <<>> THEN <<>> ELSE InsertAsc(Head(s), SortAsc(Tail(s)))

\* sum of rankValues[ranksSorted[i]] * Math.pow(100, 4 - i)
RECURSIVE positional(_, _)
positional(rs, i) ==
    IF i >= Len(rs) THEN 0 ELSE rs[i + 1] * (100 ^ (4 - i)) + positional(rs, i + 1)

CategoryOf(rank) ==
    CASE rank = "High Card" -> 0
      [] rank = "One Pair" -> 1
      [] rank = "Two Pair" -> 2
      [] rank = "Three of a Kind" -> 3
      [] rank = "Straight" -> 4
      [] rank = "Flush" -> 5
      [] rank = "Full House" -> 6
      [] rank = "Four of a Kind" -> 7
      [] rank = "Straight Flush" -> 8
      [] rank = "Royal Flush" -> 9
      [] OTHER -> -1

\* ranksSorted: the distinct ranks of a descending list, in that order
RECURSIVE Distinct(_)
Distinct(s) ==
    IF Len(s) <= 1 THEN s
    ELSE IF s[1] = s[2] THEN Distinct(Tail(s))
    ELSE <<s[1]>> \o Distinct(Tail(s))

\* An evaluation that keeps the ace of the 5-high straight at 14
handRankOf_ace(sorted, isFlush) ==
    LET rankCounts(r) == (IF sorted[1] = r THEN 1 ELSE 0) + (IF sorted[2] = r THEN 1 ELSE 0)
                       + (IF sorted[3] = r THEN 1 ELSE 0) + (IF sorted[4] = r THEN 1 ELSE 0)
                       + (IF sorted[5] = r THEN 1 ELSE 0)
        ranksSorted == Distinct(<<sorted[5], sorted[4], sorted[3], sorted[2], sorted[1]>>)
        pairs == SelectSeq(ranksSorted, LAMBDA r : rankCounts(r) = 2)
        threes == SelectSeq(ranksSorted, LAMBDA r : rankCounts(r) = 3)
        fours == SelectSeq(ranksSorted, LAMBDA r : rankCounts(r) = 4)
        threeOfAKind == IF threes = <<>> THEN 0 ELSE threes[Len(threes)]
        fourOfAKind == IF fours = <<>> THEN 0 ELSE fours[Len(fours)]
        consecutive == \A i \in 2..5 : sorted[i] = sorted[i - 1] + 1
        wheel == ~consecutive /\ sorted = <<2, 3, 4, 5, 14>>
        isStraight == consecutive \/ wheel
        cardValues == sorted
        not3 == SelectSeq(ranksSorted, LAMBDA r : r /= threeOfAKind)
        notPairs == SelectSeq(ranksSorted, LAMBDA r : rankCounts(r) /= 2)
        not4 == SelectSeq(ranksSorted, LAMBDA r : r /= fourOfAKind)
    IN  IF isFlush /\ isStraight /\ cardValues[5] = 14 /\ cardValues[1] = 10
        THEN [rank |-> "Royal Flush", value |-> 9 * 1000000]
        ELSE IF isFlush /\ isStraight
        THEN [rank |-> "Straight Flush", value |-> 8 * 1000000 + cardValues[5]]
        ELSE IF fourOfAKind /= 0
        THEN [rank |-> "Four of a Kind",
              value |-> 7 * 1000000 + fourOfAKind * 100 + not4[1]]
        ELSE IF threeOfAKind /= 0 /\ Len(pairs) > 0
        THEN [rank |-> "Full House",
              value |-> 6 * 1000000 + threeOfAKind * 100 + pairs[1]]
        ELSE IF isFlush
        THEN [rank |-> "Flush", value |-> 5 * 1000000 + positional(ranksSorted, 0)]
        ELSE IF isStraight
        THEN [rank |-> "Straight", value |-> 4 * 1000000 + cardValues[5]]
        ELSE IF threeOfAKind /= 0
        THEN [rank |-> "Three of a Kind",
              value |-> 3 * 1000000 + threeOfAKind * 10000 + not3[1] * 100 + not3[2]]
        ELSE IF Len(pairs) >= 2
        THEN [rank |-> "Two Pair",
              value |-> 2 * 1000000 + pairs[1] * 10000 + pairs[2] * 100 + notPairs[1]]
        ELSE IF Len(pairs) = 1
        THEN [rank |-> "One Pair",
              value |-> 1 * 1000000 + pairs[1] * 10000
                        + notPairs[1] * 1000 + notPairs[2] * 10 + notPairs[3]]
        ELSE [rank |-> "High Card", value |-> positional(ranksSorted, 0)]

\* The rank and value of 5 cards with the ascending rank values sorted
handRankOf(sorted, isFlush) ==
    LET rankCounts(r) == (IF sorted[1] = r THEN 1 ELSE 0) + (IF sorted[2] = r THEN 1 ELSE 0)
                       + (IF sorted[3] = r THEN 1 ELSE 0) + (IF sorted[4] = r THEN 1 ELSE 0)
                       + (IF sorted[5] = r THEN 1 ELSE 0)
        ranksSorted == Distinct(<<sorted[5], sorted[4], sorted[3], sorted[2], sorted[1]>>)
        pairs == SelectSeq(ranksSorted, LAMBDA r : rankCounts(r) = 2)
        threes == SelectSeq(ranksSorted, LAMBDA r : rankCounts(r) = 3)
        fours == SelectSeq(ranksSorted, LAMBDA r : rankCounts(r) = 4)
        threeOfAKind == IF threes = <<>> THEN 0 ELSE threes[Len(threes)]
        fourOfAKind == IF fours = <<>> THEN 0 ELSE fours[Len(fours)]
        consecutive == \A i \in 2..5 : sorted[i] = sorted[i - 1] + 1
        wheel == ~consecutive /\ sorted = <<2, 3, 4, 5, 14>>
        isStraight == consecutive \/ wheel
        cardValues == IF wheel THEN <<1, 2, 3, 4, 5>> ELSE sorted
        not3 == SelectSeq(ranksSorted, LAMBDA r : r /= threeOfAKind)
        notPairs == SelectSeq(ranksSorted, LAMBDA r : rankCounts(r) /= 2)
        not4 == SelectSeq(ranksSorted, LAMBDA r : r /= fourOfAKind)
    IN  IF isFlush /\ isStraight /\ cardValues[5] = 14 /\ cardValues[1] = 10
        THEN [rank |-> "Royal Flush", value |-> 9 * 1000000]
        ELSE IF isFlush /\ isStraight
        THEN [rank |-> "Straight Flush", value |-> 8 * 1000000 + cardValues[5]]
        ELSE IF fourOfAKind /= 0
        THEN [rank |-> "Four of a Kind",
              value |-> 7 * 1000000 + fourOfAKind * 100 + not4[1]]
        ELSE IF threeOfAKind /= 0 /\ Len(pairs) > 0
        THEN [rank |-> "Full House",
              value |-> 6 * 1000000 + threeOfAKind * 100 + pairs[1]]
        ELSE IF isFlush
        THEN [rank |-> "Flush", value |-> 5 * 1000000 + positional(ranksSorted, 0)]
        ELSE IF isStraight
        THEN [rank |-> "Straight", value |-> 4 * 1000000 + cardValues[5]]
        ELSE IF threeOfAKind /= 0
        THEN [rank |-> "Three of a Kind",
              value |-> 3 * 1000000 + threeOfAKind * 10000 + not3[1] * 100 + not3[2]]
        ELSE IF Len(pairs) >= 2
        THEN [rank |-> "Two Pair",
              value |-> 2 * 1000000 + pairs[1] * 10000 + pairs[2] * 100 + notPairs[1]]
        ELSE IF Len(pairs) = 1
        THEN [rank |-> "One Pair",
              value |-> 1 * 1000000 + pairs[1] * 10000
                        + notPairs[1] * 1000 + notPairs[2] * 10 + notPairs[3]]
        ELSE [rank |-> "High Card", value |-> positional(ranksSorted, 0)]

evaluateFiveCardHand(cards) ==
    handRankOf(SortAsc(<<rankValues(cards[1]), rankValues(cards[2]), rankValues(cards[3]),
                         rankValues(cards[4]), rankValues(cards[5])>>),
               \A i \in 2..5 : Suit(cards[i]) = Suit(cards[1]))

\* getCombinations(cards, 5), as ascending lists of 5 of the indices 1..n
Kept(n, omitted) == SelectSeq(<<1, 2, 3, 4, 5, 6, 7>>, LAMBDA i : i <= n /\ i \notin omitted)
getCombinations(n) ==
    { Kept(n, omitted) : omitted \in { o \in SUBSET (1..n) : Cardinality(o) = n - 5 } }

\* Order of the combinations in the result of the backtracking
LexBefore(a, b) ==
    \E i \in 1..5 : a[i] < b[i] /\ \A j \in 1..(i - 1) : a[j] = b[j]

\* bestHand starts at value 0 and is replaced by each strictly better
\* combination, so the first of the best combinations is kept
bestHand(evaluated) ==
    LET top == Max({ x.e.value : x \in evaluated })
        first == CHOOSE x \in evaluated :
                    /\ x.e.value = top
                    /\ \A y \in evaluated :
                          y.e.value = top => (y.c = x.c \/ LexBefore(x.c, y.c))
    IN IF top > 0 THEN first.e
       ELSE [rank |-> "High Card", value |-> 0]

findBestHand(cards) ==
    bestHand({ [c |-> c,
                e |-> evaluateFiveCardHand(<<cards[c[1]], cards[c[2]], cards[c[3]],
                                             cards[c[4]], cards[c[5]]>>)] :
               c \in getCombinations(Len(cards)) })

evaluateHand(cards) ==
    IF Len(cards) < 5 THEN [rank |-> "Invalid Hand", value |-> 0]
    ELSE IF Len(cards) > 5 THEN findBestHand(cards)
    ELSE evaluateFiveCardHand(cards)

\* evaluateHand, computed once for the 7-card hands a table of n seats holds
\* at showdown after the k-th shuffle (seat i holds the cards 2i-1, 2i of the
\* deck, the board the 5 cards after the hole cards)
ShowdownHand(k, n, i) ==
    SubSeq(createDeck(k), 2 * i - 1, 2 * i) \o SubSeq(createDeck(k), 2 * n + 1, 2 * n + 5)
ShowdownHands ==
    { ShowdownHand(k, n, i) : k \in 1..NShuffles, n \in 2..MaxSockets, i \in 1..MaxSockets }
RECURSIVE Tabulate(_)
Tabulate(hs) ==
    IF hs = {} THEN << >>
    ELSE LET h == CHOOSE x \in hs : TRUE
         IN (h :> evaluateHand(h)) @@ Tabulate(hs \ {h})
HandTable == Tabulate(ShowdownHands)
evaluateHandOnce(cards) ==
    IF cards \in DOMAIN HandTable THEN HandTable[cards] ELSE evaluateHand(cards)

----------------------------------------------------------------------------
\* Betting / phase state machine: functions from game object to game object

\* A test of the next seat that does not look at the connection
Eligible_offline(p) == ~p.folded /\ p.chips > 0

Eligible(p) == ~p.folded /\ p.chips > 0 /\ p.isConnected

\* Go around the table once from currentIndex + 1; -1 when nobody is eligible
findNextActivePlayer(g, currentIndex) ==
    LET n == Len(g.players)
        steps == { d \in 1..(n - 1) : Eligible(g.players[((currentIndex + d) % n) + 1]) }
    IN IF steps = {} THEN -1 ELSE (currentIndex + Min(steps)) % n

\* A turn hand-over that does not clear the flag of the other seats
setTurn_keep(g, idx) ==
    [g EXCEPT !.players[idx + 1].isCurrentTurn = TRUE, !.currentPlayerIndex = idx]

\* p.isCurrentTurn = i === idx, for every seat
setTurn(g, idx) ==
    [g EXCEPT !.players = [i \in 1..Len(g.players) |->
                              [g.players[i] EXCEPT !.isCurrentTurn = (i - 1 = idx)]],
              !.currentPlayerIndex = idx]

\* A blind that is recorded as the seat's bet but not taken from its stack
postBlind_unpaid(p, blind) == [p EXCEPT !.bet = blind]

\* player.bet = blind; player.chips -= blind
postBlind(p, blind) == [p EXCEPT !.bet = blind, !.chips = @ - blind]

\* One iteration of the forEach of startGame and of the restart timer: the
\* seat at index gets the dealer / turn flags, 2 hole cards, and its blind
dealSeat(g, index) ==
    LET n == Len(g.players)
        dealt == dealCards(g.deck, 2)
        isSB == index = (g.dealerIndex + 1) % n
        isBB == index = (g.dealerIndex + 2) % n
        p0 == [g.players[index + 1] EXCEPT
                  !.isDealer = (index = g.dealerIndex),
                  !.isCurrentTurn = (index = g.currentPlayerIndex),
                  !.cards = dealt.cards]
        p1 == IF isSB THEN postBlind(p0, SmallBlind) ELSE p0
        p2 == IF isBB THEN postBlind(p1, BigBlind) ELSE p1
    IN [g EXCEPT
          !.players[index + 1] = p2,
          !.deck = dealt.remainingDeck,
          !.pot = @ + (IF isSB THEN SmallBlind ELSE 0) + (IF isBB THEN BigBlind ELSE 0),
          !.currentBet = IF isBB THEN BigBlind ELSE @,
          !.lastRaisePlayerId = IF isBB THEN g.players[index + 1].id ELSE @]

RECURSIVE dealSeats(_, _)
dealSeats(g, index) ==
    IF index >= Len(g.players) THEN g ELSE dealSeats(dealSeat(g, index), index + 1)

\* A start that goes straight to the flop phase
startGame_flop(g, k) ==
    LET g1 == [g EXCEPT !.deck = createDeck(k),
                        !.phase = "dealing",
                        !.dealerIndex = 0,
                        !.currentPlayerIndex = 3 % Len(g.players)]
    IN [dealSeats(g1, 0) EXCEPT !.phase = "flop"]

\* startGame, past its guards: new deck, dealer 0, first to act dealer + 3
startGame(g, k) ==
    LET g1 == [g EXCEPT !.deck = createDeck(k),
                        !.phase = "dealing",
                        !.dealerIndex = 0,
                        !.currentPlayerIndex = 3 % Len(g.players)]
    IN [dealSeats(g1, 0) EXCEPT !.phase = "betting"]

\* The setTimeout callback of resetGame, when it begins a hand
restartHand(g) ==
    LET g1 == [g EXCEPT !.phase = "dealing",
                        !.currentPlayerIndex = (g.dealerIndex + 3) % Len(g.players)]
    IN [dealSeats(g1, 0) EXCEPT !.phase = "betting"]

\* player.isWinner = false; player.handDescription = null, for every seat
clearWinners(g) ==
    [g EXCEPT !.players = [i \in 1..Len(g.players) |->
                              [g.players[i] EXCEPT !.isWinner = FALSE,
                                                   !.handDescription = ""]]]

\* The seat w (1-based) is marked winner and gets the pot
awardPot(g, w, description) ==
    [g EXCEPT !.players[w] = [@ EXCEPT !.chips = @ + g.pot,
                                       !.isWinner = TRUE,
                                       !.handDescription = description],
              !.pot = 0]

\* The evaluated hands of the seats that have not folded
playerHands(g) ==
    { [i |-> i, handRank |-> evaluateHandOnce(g.players[i].cards \o g.communityCards)] :
      i \in { j \in 1..Len(g.players) : ~g.players[j].folded } }

\* A settlement that sorts the hands lowest first
winningHand_lowest(hs) ==
    CHOOSE x \in hs :
        \A y \in hs : \/ x.handRank.value < y.handRank.value
                      \/ x.handRank.value = y.handRank.value /\ x.i <= y.i

\* playerHands[0] after the stable sort by value, highest first: the first seat
\* in seat order among those with the maximum value
winningHand(hs) ==
    CHOOSE x \in hs :
        \A y \in hs : \/ x.handRank.value > y.handRank.value
                      \/ x.handRank.value = y.handRank.value /\ x.i <= y.i

awardHand(g, best) == awardPot(g, best.i, best.handRank.rank)

\* A settlement that compares hands even when one seat is left
determineWinner_compare(g) ==
    LET activePlayers == { i \in 1..Len(g.players) : ~g.players[i].folded }
    IN IF activePlayers = {} THEN clearWinners(g)
       ELSE awardHand(clearWinners(g), winningHand(playerHands(g)))

determineWinner(g) ==
    LET activePlayers == { i \in 1..Len(g.players) : ~g.players[i].folded }
    IN IF activePlayers = {} THEN clearWinners(g)
       ELSE IF Cardinality(activePlayers) = 1
       THEN awardPot(clearWinners(g), CHOOSE i \in activePlayers : TRUE,
                     "Win by default (all others folded)")
       ELSE awardHand(clearWinners(g), winningHand(playerHands(g)))

\* A reset that leaves the session without a deck
resetGame_noDeck(g, k) ==
    LET n == Len(g.players)
        d == (g.dealerIndex + 1) % n
    IN [g EXCEPT
          !.phase = "waiting",
          !.communityCards = <<>>,
          !.pot = 0,
          !.currentBet = 0,
          !.lastRaisePlayerId = NullId,
          !.deck = <<>>,
          !.dealerIndex = d,
          !.players = [i \in 1..n |->
                          [g.players[i] EXCEPT
                              !.cards = <<>>, !.bet = 0, !.folded = FALSE,
                              !.isCurrentTurn = FALSE, !.isDealer = (i - 1 = d),
                              !.isWinner = FALSE, !.handDescription = ""]]]

\* resetGame, up to the setTimeout (the timer it schedules is counted by the
\* action that calls it)
resetGame(g, k) ==
    LET n == Len(g.players)
        d == (g.dealerIndex + 1) % n
    IN [g EXCEPT
          !.phase = "waiting",
          !.communityCards = <<>>,
          !.pot = 0,
          !.currentBet = 0,
          !.lastRaisePlayerId = NullId,
          !.deck = createDeck(k),
          !.dealerIndex = d,
          !.players = [i \in 1..n |->
                          [g.players[i] EXCEPT
                              !.cards = <<>>, !.bet = 0, !.folded = FALSE,
                              !.isCurrentTurn = FALSE, !.isDealer = (i - 1 = d),
                              !.isWinner = FALSE, !.handDescription = ""]]]

\* A street that is dealt one card more than asked for
dealCommunity_more(g, count) ==
    LET dealt == dealCards(g.deck, count + 1)
    IN [g EXCEPT !.communityCards = @ \o dealt.cards, !.deck = dealt.remainingDeck]

\* Append count cards of the deck to the community cards
dealCommunity(g, count) ==
    LET dealt == dealCards(g.deck, count)
    IN [g EXCEPT !.communityCards = @ \o dealt.cards, !.deck = dealt.remainingDeck]

\* The switch of advanceToNextPhase
advancePhase(g, k) ==
    CASE g.phase = "betting" ->
            LET g1 == [g EXCEPT !.phase = "flop"]
            IN IF Len(g.communityCards) = 0 THEN dealCommunity(g1, 3) ELSE g1
      [] g.phase = "flop" ->
            LET g1 == [g EXCEPT !.phase = "turn"]
            IN IF Len(g.communityCards) = 3 THEN dealCommunity(g1, 1) ELSE g1
      [] g.phase = "turn" ->
            LET g1 == [g EXCEPT !.phase = "river"]
            IN IF Len(g.communityCards) = 4 THEN dealCommunity(g1, 1) ELSE g1
      [] g.phase = "river" ->
            LET g1 == [g EXCEPT !.phase = "showdown"]
                g2 == IF Len(g.communityCards) < 5
                      THEN dealCommunity(g1, 5 - Len(g.communityCards)) ELSE g1
            IN determineWinner(g2)
      [] g.phase = "showdown" -> resetGame(g, k)
      [] OTHER -> g

\* Reset of the bets and of the aggressor at the top of advanceToNextPhase
resetBets(g) ==
    [g EXCEPT !.players = [i \in 1..Len(g.players) |-> [g.players[i] EXCEPT !.bet = 0]],
              !.currentBet = 0,
              !.lastRaisePlayerId = NullId]

\* First to act of the new round: the first active seat after the dealer
firstToAct(g) ==
    LET nextPlayerIndex == findNextActivePlayer(g, g.dealerIndex)
    IN IF g.phase /= "showdown" /\ nextPlayerIndex /= -1
       THEN setTurn(g, nextPlayerIndex) ELSE g

advanceToNextPhase(g, k) == firstToAct(advancePhase(resetBets(g), k))

\* Does advanceToNextPhase(g) call resetGame, which schedules a restart timer
SchedulesRestart(g) == g.phase = "showdown"

----------------------------------------------------------------------------
\* The playerAction handler

\* A minimum raise of the table bet itself
minRaise_bet(g) == g.currentBet

minRaise(g) == g.currentBet * 2

\* A switch on the action whose raise asks the stack for the chips the raise
\* adds to the bet, not for the whole amount
applyAction_delta(g, playerIndex, action, amount) ==
    LET player == g.players[playerIndex + 1]
        callAmount == g.currentBet - player.bet
        raiseAmount == amount - player.bet
    IN CASE action = "fold" ->
              [err |-> "", g |-> [g EXCEPT !.players[playerIndex + 1].folded = TRUE]]
         [] action = "check" ->
              IF g.currentBet > player.bet
              THEN [err |-> "Cannot check, must call or raise", g |-> g]
              ELSE [err |-> "", g |-> g]
         [] action = "call" ->
              IF callAmount > player.chips
              THEN [err |-> "",
                    g |-> [g EXCEPT !.pot = @ + player.chips,
                                    !.players[playerIndex + 1].bet = @ + player.chips,
                                    !.players[playerIndex + 1].chips = 0]]
              ELSE [err |-> "",
                    g |-> [g EXCEPT !.pot = @ + callAmount,
                                    !.players[playerIndex + 1].bet = g.currentBet,
                                    !.players[playerIndex + 1].chips = @ - callAmount]]
         [] action = "raise" ->
              IF amount <= 0 THEN [err |-> "Invalid raise amount", g |-> g]
              ELSE IF amount < minRaise(g) THEN [err |-> "Minimum raise is", g |-> g]
              ELSE IF raiseAmount > player.chips THEN [err |-> "Not enough chips", g |-> g]
              ELSE [err |-> "",
                    g |-> [g EXCEPT !.pot = @ + raiseAmount,
                                    !.players[playerIndex + 1].bet = amount,
                                    !.players[playerIndex + 1].chips = @ - raiseAmount,
                                    !.currentBet = amount,
                                    !.lastRaisePlayerId = player.id]]
         [] OTHER -> [err |-> "Invalid action", g |-> g]

\* A switch on the action whose call asks the stack for the whole call
applyAction_owed(g, playerIndex, action, amount) ==
    LET player == g.players[playerIndex + 1]
        callAmount == g.currentBet - player.bet
        raiseAmount == amount - player.bet
    IN CASE action = "fold" ->
              [err |-> "", g |-> [g EXCEPT !.players[playerIndex + 1].folded = TRUE]]
         [] action = "check" ->
              IF g.currentBet > player.bet
              THEN [err |-> "Cannot check, must call or raise", g |-> g]
              ELSE [err |-> "", g |-> g]
         [] action = "call" ->
              IF callAmount > player.chips
              THEN [err |-> "Not enough chips", g |-> g]
              ELSE [err |-> "",
                    g |-> [g EXCEPT !.pot = @ + callAmount,
                                    !.players[playerIndex + 1].bet = g.currentBet,
                                    !.players[playerIndex + 1].chips = @ - callAmount]]
         [] action = "raise" ->
              IF amount <= 0 THEN [err |-> "Invalid raise amount", g |-> g]
              ELSE IF amount < minRaise(g) THEN [err |-> "Minimum raise is", g |-> g]
              ELSE IF amount > player.chips THEN [err |-> "Not enough chips", g |-> g]
              ELSE [err |-> "",
                    g |-> [g EXCEPT !.pot = @ + raiseAmount,
                                    !.players[playerIndex + 1].bet = amount,
                                    !.players[playerIndex + 1].chips = @ - raiseAmount,
                                    !.currentBet = amount,
                                    !.lastRaisePlayerId = player.id]]
         [] OTHER -> [err |-> "Invalid action", g |-> g]

\* The switch on the action: the game after it, or the error emitted
applyAction(g, playerIndex, action, amount) ==
    LET player == g.players[playerIndex + 1]
        callAmount == g.currentBet - player.bet
        raiseAmount == amount - player.bet
    IN CASE action = "fold" ->
              [err |-> "", g |-> [g EXCEPT !.players[playerIndex + 1].folded = TRUE]]
         [] action = "check" ->
              IF g.currentBet > player.bet
              THEN [err |-> "Cannot check, must call or raise", g |-> g]
              ELSE [err |-> "", g |-> g]
         [] action = "call" ->
              IF callAmount > player.chips
              THEN [err |-> "",
                    g |-> [g EXCEPT !.pot = @ + player.chips,
                                    !.players[playerIndex + 1].bet = @ + player.chips,
                                    !.players[playerIndex + 1].chips = 0]]
              ELSE [err |-> "",
                    g |-> [g EXCEPT !.pot = @ + callAmount,
                                    !.players[playerIndex + 1].bet = g.currentBet,
                                    !.players[playerIndex + 1].chips = @ - callAmount]]
         [] action = "raise" ->
              IF amount <= 0 THEN [err |-> "Invalid raise amount", g |-> g]
              ELSE IF amount < minRaise(g) THEN [err |-> "Minimum raise is", g |-> g]
              ELSE IF amount > player.chips THEN [err |-> "Not enough chips", g |-> g]
              ELSE [err |-> "",
                    g |-> [g EXCEPT !.pot = @ + raiseAmount,
                                    !.players[playerIndex + 1].bet = amount,
                                    !.players[playerIndex + 1].chips = @ - raiseAmount,
                                    !.currentBet = amount,
                                    !.lastRaisePlayerId = player.id]]
         [] OTHER -> [err |-> "Invalid action", g |-> g]

\* The round is over when nobody else can act or the action is back at the
\* last raiser
ClosesRound(g, playerIndex) ==
    LET nextPlayerIndex == findNextActivePlayer(g, playerIndex)
    IN \/ nextPlayerIndex = -1
       \/ /\ g.lastRaisePlayerId /= NullId
          /\ g.players[nextPlayerIndex + 1].id = g.lastRaisePlayerId

\* "Move to next player", after an accepted action
moveToNextPlayer(g, playerIndex, k) ==
    IF ClosesRound(g, playerIndex)
    THEN advanceToNextPhase(g, k)
    ELSE setTurn(g, findNextActivePlayer(g, playerIndex))

\* A turn test that only looks for the sender's seat
HoldsTurn_seated(g, sock) == findIndex(g.players, sock) /= -1

HoldsTurn(g, sock) ==
    LET playerIndex == findIndex(g.players, sock)
    IN playerIndex /= -1 /\ g.players[playerIndex + 1].isCurrentTurn

----------------------------------------------------------------------------
\* The socket handlers: what each does to the game object, the error it
\* emits to the sender ("" when accepted) and the restart timers it schedules

Result(g, err, scheduled) == [g |-> g, err |-> err, scheduled |-> scheduled]

playerAction(sock, action, amount, k) ==
    IF ~Routed(sock) THEN Result(game, "Game not found", 0)
    ELSE IF ~HoldsTurn(game, sock) THEN Result(game, "Not your turn", 0)
    ELSE LET playerIndex == findIndex(game.players, sock)
             r == applyAction(game, playerIndex, action, amount)
         IN IF r.err /= "" THEN Result(game, r.err, 0)
            ELSE Result(moveToNextPlayer(r.g, playerIndex, k), "",
                        IF ClosesRound(r.g, playerIndex) /\ SchedulesRestart(r.g)
                        THEN 1 ELSE 0)

\* A startGame handler that does not look at the phase
startGameHandler_anyPhase(sock, k) ==
    IF ~Routed(sock) THEN Result(game, "Game not found", 0)
    ELSE IF Len(game.players) < 2 THEN Result(game, "Need at least 2 players to start", 0)
    ELSE Result(startGame(game, k), "", 0)

startGameHandler(sock, k) ==
    IF ~Routed(sock) THEN Result(game, "Game not found", 0)
    ELSE IF Len(game.players) < 2 THEN Result(game, "Need at least 2 players to start", 0)
    ELSE IF game.phase /= "waiting" THEN Result(game, "Game already started", 0)
    ELSE Result(startGame(game, k), "", 0)

nextPhase(sock, k) ==
    IF ~Routed(sock) THEN Result(game, "Game not found", 0)
    ELSE Result(advanceToNextPhase(game, k), "", IF SchedulesRestart(game) THEN 1 ELSE 0)

\* A joinGame handler that does not count the seats
joinGame_crowded(sock) ==
    IF GameId \notin games THEN Result(game, "Game not found", 0)
    ELSE IF game.phase /= "waiting" THEN Result(game, "Game already started", 0)
    ELSE Result([game EXCEPT !.players =
                    Append(@, newPlayer(sock, FALSE, Len(game.players)))], "", 0)

joinGame(sock) ==
    IF GameId \notin games THEN Result(game, "Game not found", 0)
    ELSE IF game.phase /= "waiting" THEN Result(game, "Game already started", 0)
    ELSE IF Len(game.players) >= MaxPlayers THEN Result(game, "Game is full", 0)
    ELSE Result([game EXCEPT !.players =
                    Append(@, newPlayer(sock, FALSE, Len(game.players)))], "", 0)

\* A reconnectToGame handler that gives the seat the turn
reconnectIn_turn(g, registry, sock, playerId) ==
    LET playerIndex == findIndex(g.players, playerId)
    IN IF GameId \notin registry THEN Result(g, "Game not found", 0)
       ELSE IF playerIndex = -1 THEN Result(g, "Player not found in game", 0)
       ELSE Result([g EXCEPT !.players[playerIndex + 1] =
                       [@ EXCEPT !.id = sock, !.isConnected = TRUE,
                                 !.isCurrentTurn = TRUE]], "", 0)

\* The reconnectToGame handler on game g with the games of registry
reconnectIn(g, registry, sock, playerId) ==
    LET playerIndex == findIndex(g.players, playerId)
    IN IF GameId \notin registry THEN Result(g, "Game not found", 0)
       ELSE IF playerIndex = -1 THEN Result(g, "Player not found in game", 0)
       ELSE Result([g EXCEPT !.players[playerIndex + 1] =
                       [@ EXCEPT !.id = sock, !.isConnected = TRUE]], "", 0)

reconnectToGame(sock, playerId) == reconnectIn(game, games, sock, playerId)

\* A disconnect handler that also takes the cards of the seat
disconnect_muck(g, sock) ==
    LET playerIndex == findIndex(g.players, sock)
        g1 == [g EXCEPT !.players[playerIndex + 1].isConnected = FALSE,
                        !.players[playerIndex + 1].cards = <<>>]
        nextPlayerIndex == findNextActivePlayer(g1, playerIndex)
    IN IF playerIndex = -1 THEN g
       ELSE IF g1.players[playerIndex + 1].isCurrentTurn /\ nextPlayerIndex /= -1
       THEN setTurn(g1, nextPlayerIndex)
       ELSE g1

\* disconnect of a socket the connection Map routes to a live game
disconnect(g, sock) ==
    LET playerIndex == findIndex(g.players, sock)
        g1 == [g EXCEPT !.players[playerIndex + 1].isConnected = FALSE]
        nextPlayerIndex == findNextActivePlayer(g1, playerIndex)
    IN IF playerIndex = -1 THEN g
       ELSE IF g1.players[playerIndex + 1].isCurrentTurn /\ nextPlayerIndex /= -1
       THEN setTurn(g1, nextPlayerIndex)
       ELSE g1

\* A timer callback that does not look at the phase
restartTimer_anyPhase(g) ==
    IF Len(g.players) >= 2 THEN restartHand(g) ELSE g

\* The setTimeout callback of resetGame
restartTimer(g) ==
    IF g.phase = "waiting" /\ Len(g.players) >= 2 THEN restartHand(g) ELSE g

----------------------------------------------------------------------------
\* One action per event. A rejected event emits its error to the sender and
\* leaves the server as it was; ev is the last event the server accepted.

Senders == Connected \cup Fresh

CreateGame(sock, k) ==
    /\ sock \in Fresh
    /\ game.players = <<>> /\ games = {}
    /\ game' = [createGame(k) EXCEPT !.players = <<newPlayer(sock, TRUE, 0)>>]
    /\ games' = {GameId}
    /\ players' = (sock :> GameId) @@ players
    /\ nextSock' = nextSock + 1
    /\ ev' = Event("createGame", sock, "", 0, NullId)
    /\ UNCHANGED <<timers, hands, acts, evalVars>>

JoinGame(sock) ==
    \E r \in {joinGame(sock)} :
       /\ sock \in Fresh
       /\ IF r.err = ""
          THEN /\ game' = r.g
               /\ players' = (sock :> GameId) @@ players
               /\ nextSock' = nextSock + 1
               /\ ev' = Event("joinGame", sock, "", 0, NullId)
               /\ UNCHANGED <<games, timers, hands, acts, evalVars>>
          ELSE UNCHANGED vars

StartGame(sock, k) ==
    \E r \in {startGameHandler(sock, k)} :
       /\ sock \in Senders
       /\ IF r.err = ""
          THEN /\ hands < MaxHands
               /\ game' = r.g
               /\ hands' = hands + 1
               /\ ev' = Event("startGame", sock, "", 0, NullId)
               /\ UNCHANGED <<games, players, timers, nextSock, acts, evalVars>>
          ELSE UNCHANGED vars

PlayerAction(sock, action, amount, k) ==
    \E r \in {playerAction(sock, action, amount, k)} :
       /\ sock \in Senders
       /\ IF r.err = ""
          THEN /\ acts < MaxActions
               /\ game' = r.g
               /\ timers' = timers + r.scheduled
               /\ acts' = acts + 1
               /\ ev' = Event("playerAction", sock, action, amount, NullId)
               /\ UNCHANGED <<games, players, nextSock, hands, evalVars>>
          ELSE UNCHANGED vars

NextPhase(sock, k) ==
    \E r \in {nextPhase(sock, k)} :
       /\ sock \in Senders
       /\ IF r.err = ""
          THEN /\ game' = r.g
               /\ timers' = timers + r.scheduled
               /\ ev' = Event("nextPhase", sock, "", 0, NullId)
               /\ UNCHANGED <<games, players, nextSock, hands, acts, evalVars>>
          ELSE UNCHANGED vars

Disconnect(sock) ==
    /\ sock \in Connected
    /\ IF players[sock] \in games
       THEN /\ game' = disconnect(game, sock)
            /\ games' = IF /\ findIndex(game.players, sock) /= -1
                           /\ \A i \in 1..Len(game'.players) : ~game'.players[i].isConnected
                        THEN games \ {players[sock]} ELSE games
       ELSE UNCHANGED <<game, games>>
    /\ players' = [s \in (DOMAIN players) \ {sock} |-> players[s]]
    /\ ev' = Event("disconnect", sock, "", 0, NullId)
    /\ UNCHANGED <<timers, nextSock, hands, acts, evalVars>>

\* reconnectToGame from a new connection, for the seat known as playerId
ReconnectToGame(sock, playerId) ==
    \E r \in {reconnectToGame(sock, playerId)} :
       /\ sock \in Fresh
       /\ IF r.err = ""
          THEN /\ game' = r.g
               /\ players' = (sock :> GameId) @@ players
               /\ nextSock' = nextSock + 1
               /\ ev' = Event("reconnectToGame", sock, "", 0, playerId)
               /\ UNCHANGED <<games, timers, hands, acts, evalVars>>
          ELSE UNCHANGED vars

\* A pending restart timer fires (the callback runs on the game object it
\* closed over, whether or not the game is still in the registry)
TimerFires ==
    /\ timers > 0
    /\ restartTimer(game) /= game => hands < MaxHands
    /\ timers' = timers - 1
    /\ game' = restartTimer(game)
    /\ hands' = IF restartTimer(game) /= game THEN hands + 1 ELSE hands
    /\ ev' = Event("timer", NullId, "", 0, NullId)
    /\ UNCHANGED <<games, players, nextSock, acts, evalVars>>

\* A shuffle outcome is drawn only by an event that calls createDeck
Shuffles(usesDeck) == IF usesDeck THEN 1..NShuffles ELSE {1}

\* startGame and nextPhase use the sender only to find its game: one routed
\* sender stands for all of them
Routers == (IF \E s \in Connected : Routed(s)
            THEN {Min({ s \in Connected : Routed(s) })} ELSE {}) \cup Fresh

\* The amounts explored for an action of sock
Amounts(sock, action) ==
    LET playerIndex == findIndex(game.players, sock)
    IN IF action /= "raise" THEN {0}
       ELSE IF playerIndex = -1 THEN {BigBlind}
       ELSE RaiseAmounts(game.currentBet, game.players[playerIndex + 1].chips)

Next ==
    \/ \E sock \in Fresh, k \in 1..NShuffles : CreateGame(sock, k)
    \/ \E sock \in Fresh : JoinGame(sock)
    \/ \E sock \in Routers, k \in 1..NShuffles : StartGame(sock, k)
    \/ \E sock \in Senders, action \in Actions, k \in Shuffles(game.phase = "showdown") :
          \E amount \in Amounts(sock, action) : PlayerAction(sock, action, amount, k)
    \/ \E sock \in Routers, k \in Shuffles(game.phase = "showdown") : NextPhase(sock, k)
    \/ \E sock \in Connected : Disconnect(sock)
    \/ \E sock \in Fresh, playerId \in 1..MaxSockets : ReconnectToGame(sock, playerId)
    \/ TimerFires

----------------------------------------------------------------------------
Init ==
    /\ game = NoGame
    /\ games = {}
    /\ players = << >>
    /\ timers = 0
    /\ nextSock = 1
    /\ hands = 0
    /\ acts = 0
    /\ ev = Event("init", NullId, "", 0, NullId)
    /\ handA = <<>> /\ handB = <<>>
    /\ evalA = [rank |-> "", value |-> 0]
    /\ evalB = [rank |-> "", value |-> 0]

Spec == Init /\ [][Next]_vars

----------------------------------------------------------------------------
\* The connection events on their own: joinGame is also sent by connections
\* that already hold a seat (the handler does not look at the sender), up to
\* a full table

\* joinGame from a connection that is registered already
JoinGameSeated(sock) ==
    \E r \in {joinGame(sock)} :
       /\ sock \in Connected
       /\ IF r.err = ""
          THEN /\ game' = r.g
               /\ players' = (sock :> GameId) @@ players
               /\ ev' = Event("joinGame", sock, "", 0, NullId)
               /\ UNCHANGED <<games, timers, nextSock, hands, acts, evalVars>>
          ELSE UNCHANGED vars

NextLobby ==
    \/ \E sock \in Fresh, k \in 1..NShuffles : CreateGame(sock, k)
    \/ \E sock \in Fresh : JoinGame(sock)
    \/ \E sock \in Connected : JoinGameSeated(sock)
    \/ \E sock \in Routers, k \in 1..NShuffles : StartGame(sock, k)
    \/ \E sock \in Connected : Disconnect(sock)
    \/ \E sock \in Fresh, playerId \in 1..MaxSockets : ReconnectToGame(sock, playerId)

SpecLobby == Init /\ [][NextLobby]_vars

----------------------------------------------------------------------------
\* Quantities and predicates the properties below speak of

Seats(g) == 1..Len(g.players)

RECURSIVE SumSeq(_)
SumSeq(s) == IF s = <<>> THEN 0 ELSE Head(s) + SumSeq(Tail(s))

SumChips(g) == SumSeq([i \in Seats(g) |-> g.players[i].chips])
SumBets(g) == SumSeq([i \in Seats(g) |-> g.players[i].bet])

\* The events the hand is played with (no seat is added or rebound)
HandEvents == {"startGame", "playerAction", "nextPhase", "timer"}

Streets == {"betting", "flop", "turn", "river"}
NextStreet(phase) ==
    CASE phase = "betting" -> "flop"
      [] phase = "flop" -> "turn"
      [] phase = "turn" -> "river"
      [] phase = "river" -> "showdown"
      [] OTHER -> phase

\* The step runs resetGame
IsReset == game.phase = "showdown" /\ game'.phase = "waiting"

\* The seat (1-based) a connection acts for, 0 when it has none
SeatOf(g, sock) == findIndex(g.players, sock) + 1

\* The seat (1-based) whose action the step applies, 0 when it applies none
Actor == IF ev'.op = "playerAction" THEN SeatOf(game, ev'.sock) ELSE 0

\* What a call of seat a moves: the difference between the table bet and the
\* bet of the seat, or the stack of the seat if that is less
CallChips(g, a) ==
    Min({g.currentBet - g.players[a].bet, g.players[a].chips})

\* The chips the action of the step takes from the stack of its actor: those
\* of a call or of a raise
Paid ==
    IF ev'.op /= "playerAction" THEN 0
    ELSE IF ev'.action = "call" THEN CallChips(game, Actor)
    ELSE IF ev'.action = "raise" THEN ev'.amount - game.players[Actor].bet
    ELSE 0

\* The connection is registered to the live session and its seat, if it has
\* one, does not hold the turn
OutOfTurn(sock) ==
    /\ sock \in Connected
    /\ players[sock] \in games
    /\ \A i \in Seats(game) : game.players[i].id = sock => ~game.players[i].isCurrentTurn

\* The connection is registered to the live session and its seat holds the turn
InTurn(sock) ==
    /\ sock \in Connected
    /\ players[sock] \in games
    /\ SeatOf(game, sock) /= 0
    /\ game.players[SeatOf(game, sock)].isCurrentTurn

----------------------------------------------------------------------------
C2_NotYourTurn ==
    \A sock \in Connected :
        OutOfTurn(sock) =>
            \A action \in Actions, k \in 1..NShuffles :
                \A amount \in Amounts(sock, action) :
                    playerAction(sock, action, amount, k) = Result(game, "Not your turn", 0)

\* Out-of-turn senders during a betting round: a seated one, and one whose
\* seat was taken over by another connection
C2_Witness ==
    /\ game.phase = "betting"
    /\ \E sock \in Connected : OutOfTurn(sock) /\ SeatOf(game, sock) /= 0
    /\ \E sock \in Connected : OutOfTurn(sock) /\ SeatOf(game, sock) = 0

\* C4: deck, community cards and hole cards together are the 52 cards, each
\* once.
RECURSIVE HoleCards(_, _)
HoleCards(g, n) == IF n = 0 THEN <<>> ELSE HoleCards(g, n - 1) \o g.players[n].cards
AllCards(g) == g.deck \o g.communityCards \o HoleCards(g, Len(g.players))
C4_CardConservation ==
    /\ Len(AllCards(game)) = DeckSize
    /\ { AllCards(game)[i] : i \in 1..Len(AllCards(game)) } = 0..(DeckSize - 1)

\* The second hand of a session (after a reset), dealt out to the river
C4_Witness ==
    /\ hands = 2
    /\ Len(game.communityCards) = 5
    /\ \A i \in Seats(game) : Len(game.players[i].cards) = 2

\* C5: outside Waiting and Showdown at most one seat holds the turn.
C5_OneTurnHolder ==
    game.phase \notin {"waiting", "showdown"}
        => Cardinality({ i \in Seats(game) : game.players[i].isCurrentTurn }) <= 1

\* The turn was handed over during a betting round
C5_Witness ==
    /\ game.phase \in Streets
    /\ Len(game.players) = 3
    /\ ev.op \in {"playerAction", "disconnect"}
    /\ Cardinality({ i \in Seats(game) : game.players[i].isCurrentTurn }) = 1
    /\ game.currentPlayerIndex /= 3 % Len(game.players)

\* The raises below the minimum that are examined: all amounts up to four big
\* blinds, and those around the table bet and around twice the table bet
BelowMinimum(currentBet) ==
    { amount \in (1..(4 * BigBlind)) \cup {currentBet - 1, currentBet, currentBet + 1,
                                           2 * currentBet - 2, 2 * currentBet - 1} :
        0 < amount /\ amount < 2 * currentBet }

\* C8: a raise by the seat holding the turn with 0 < amount < 2 * currentBet
\* is answered "Minimum raise is" and changes nothing.
C8_MinimumRaise ==
    \A sock \in Connected :
        InTurn(sock) =>
            \A amount \in BelowMinimum(game.currentBet), k \in 1..NShuffles :
                playerAction(sock, "raise", amount, k) = Result(game, "Minimum raise is", 0)

\* A seat to act facing a bet, before and after a raise
C8_Witness ==
    /\ game.phase \in Streets
    /\ game.currentBet > BigBlind
    /\ \E sock \in Connected : InTurn(sock)

\* C3: in a betting round with an aggressor, the call that brings the last
\* of the other seats up to the table bet closes the round: the phase moves
\* to the next street, once, and the bets are reset. (The aggressor is a seat
\* of the table; the caller is not the aggressor, is not folded and can pay
\* the call; every other seat still in the hand has already matched the bet.)
LastCall ==
    LET caller == SeatOf(game, ev'.sock)
    IN /\ ev'.op = "playerAction" /\ ev'.action = "call"
       /\ game.phase \in Streets
       /\ \E i \in Seats(game) : game.players[i].id = game.lastRaisePlayerId
       /\ game.players[caller].id /= game.lastRaisePlayerId
       /\ ~game.players[caller].folded
       /\ game.currentBet - game.players[caller].bet <= game.players[caller].chips
       /\ \A i \in Seats(game) \ {caller} :
              ~game.players[i].folded => game.players[i].bet = game.currentBet
C3_RoundCloses ==
    [][LastCall => /\ game'.phase = NextStreet(game.phase)
                   /\ game'.currentBet = 0
                   /\ \A i \in Seats(game') : game'.players[i].bet = 0]_vars

\* C6: after every accepted playerAction the table bet is the highest bet of
\* the seats that have not folded (0 when no seat is left).
C6_CurrentBetIsMaxBet ==
    ev.op = "playerAction"
        => game.currentBet
             = Max({0} \cup { game.players[i].bet : i \in { j \in Seats(game) : ~game.players[j].folded } })

\* C7: a folded seat that does not hold the turn does not get it while it
\* stays folded.
C7_FoldedNeverRegainsTurn ==
    [][\A i \in Seats(game) :
          (game.players[i].folded /\ ~game.players[i].isCurrentTurn /\ game'.players[i].folded)
              => ~game'.players[i].isCurrentTurn]_vars

----------------------------------------------------------------------------
\* Settlement

\* The seats (1-based) that have not folded
NotFolded(g) == { i \in Seats(g) : ~g.players[i].folded }

\* comparableValue of the best hand of seat i: hole cards and community cards
BestValue(g, i) == evaluateHandOnce(g.players[i].cards \o g.communityCards).value

\* The step settles the hand
Settles == game.phase = "river" /\ game'.phase = "showdown"

\* The earliest seat in seat order among those of S with the highest value
TopSeat(g, S) ==
    CHOOSE i \in S : \A j \in S : \/ BestValue(g, i) > BestValue(g, j)
                                  \/ BestValue(g, i) = BestValue(g, j) /\ i <= j

\* Seat w alone is marked winner and holds the whole pot of the settled hand:
\* the pot is empty, the stacks together grew by the pot, and no stack but
\* the winner's and that of the seat that paid into the pot has changed
TakesPot(w) ==
    /\ game'.pot = 0
    /\ game'.players[w].isWinner
    /\ \A i \in Seats(game') \ {w} :
          /\ ~game'.players[i].isWinner
          /\ i /= Actor => game'.players[i].chips = game.players[i].chips
    /\ SumChips(game') = SumChips(game) + game.pot

\* C11: a settlement with two or more seats that have not folded gives the
\* whole pot to the seat, among them, whose best hand of hole and community
\* cards has the highest comparableValue, to the earliest in seat order on a
\* tie, and leaves the pot at 0.
C11_BestHandTakesPot ==
    [][Settles /\ Cardinality(NotFolded(game')) >= 2
         => TakesPot(TopSeat(game', NotFolded(game')))]_vars

\* A settled tie: both seats of a table of two play the board, and the first
\* holds both blinds
C11_Witness ==
    /\ game.phase = "showdown"
    /\ ev.op \in {"playerAction", "nextPhase"}
    /\ NotFolded(game) = {1, 2}
    /\ BestValue(game, 1) = BestValue(game, 2)
    /\ game.pot = 0
    /\ game.players[1].isWinner /\ game.players[1].chips > InitialChips
    /\ ~game.players[2].isWinner /\ game.players[2].chips < InitialChips

\* handDescription of a seat that wins because every other seat has folded
WinByDefault == "Win by default (all others folded)"

\* C12: when every seat but one has folded, the settlement at Showdown adds
\* the entire pot to the stack of the seat that has not folded, leaves the pot
\* at 0 and marks that seat, alone, as winner, described as a win by default
\* and not by the rank of a hand.
C12_DefaultWin ==
    [][Settles /\ Cardinality(NotFolded(game')) = 1
         => \A w \in NotFolded(game') :
               TakesPot(w) /\ game'.players[w].handDescription = WinByDefault]_vars

\* Two of three seats folded before the flop; the big blind is at Showdown
\* with the blinds of the others
C12_Witness ==
    /\ game.phase = "showdown"
    /\ Len(game.players) = 3
    /\ acts = 2
    /\ NotFolded(game) = {3}
    /\ game.pot = 0
    /\ game.players[3].isWinner
    /\ game.players[3].handDescription = WinByDefault
    /\ game.players[3].chips = InitialChips + SmallBlind

\* The cycle of the phases (dealing is set and left within startGame and
\* within the restart timer, and is the phase of no state)
PhaseOrder ==
    {<<"waiting", "betting">>, <<"betting", "flop">>, <<"flop", "turn">>,
     <<"turn", "river">>, <<"river", "showdown">>, <<"showdown", "waiting">>}

\* C13: the phase of a session changes only along Waiting -> Betting -> Flop
\* -> Turn -> River -> Showdown -> Waiting: no event skips a phase, repeats
\* one or moves backwards.
C13_PhaseOrder ==
    [][game'.phase /= game.phase => <<game.phase, game'.phase>> \in PhaseOrder]_vars

\* The cycle was gone through once and the second hand is at Showdown
C13_Witness ==
    /\ hands = 2
    /\ game.phase = "showdown"
    /\ ev.op = "nextPhase"
    /\ game.dealerIndex = 1

\* The hand h that startGame began from the game g: two hole cards for every
\* seat, the blinds of the seats after the dealer taken from their stacks,
\* the table bet and the aggressor those of the big blind, the turn with the
\* third seat after the dealer alone, the phase Betting
Started(g, h) ==
    \E n \in {Len(h.players)} :
       \E sb \in {((h.dealerIndex + 1) % n) + 1}, bb \in {((h.dealerIndex + 2) % n) + 1} :
          /\ n = Len(g.players)
          /\ \A i \in Seats(h) : Len(h.players[i].cards) = 2
          /\ h.players[sb].bet = SmallBlind
          /\ h.players[sb].chips = g.players[sb].chips - SmallBlind
          /\ h.players[bb].bet = BigBlind
          /\ h.players[bb].chips = g.players[bb].chips - BigBlind
          /\ h.currentBet = BigBlind
          /\ h.lastRaisePlayerId = h.players[bb].id
          /\ { i \in Seats(h) : h.players[i].isCurrentTurn } = {((h.dealerIndex + 3) % n) + 1}
          /\ h.phase = "betting"

\* C14: a startGame of a connection of the session is rejected, with nothing
\* changed, when the session has fewer than 2 seats or is not in Waiting;
\* otherwise it is accepted and afterwards every seat holds exactly 2 hole
\* cards, the seats dealer + 1 and dealer + 2 (mod the number of seats) have
\* the bets smallBlind and bigBlind, taken from their stacks, currentBet is
\* bigBlind, the last aggressor is the big blind seat, the seat dealer + 3
\* alone holds the turn and the phase is Betting.
C14_StartGame ==
    \A sock \in Connected, k \in 1..NShuffles :
        Routed(sock) =>
            \E r \in {startGameHandler(sock, k)} :
                IF Len(game.players) < 2 \/ game.phase /= "waiting"
                THEN r.err /= "" /\ r.g = game /\ r.scheduled = 0
                ELSE r.err = "" /\ Started(game, r.g)

\* A hand of three seats as startGame left it: the dealer is first to act
C14_Witness ==
    /\ ev.op = "startGame"
    /\ Len(game.players) = 3
    /\ game.phase = "betting"
    /\ game.dealerIndex = 0
    /\ \A i \in Seats(game) : Len(game.players[i].cards) = 2
    /\ game.players[2].bet = SmallBlind /\ game.players[2].chips = InitialChips - SmallBlind
    /\ game.players[3].bet = BigBlind /\ game.players[3].chips = InitialChips - BigBlind
    /\ game.currentBet = BigBlind
    /\ game.lastRaisePlayerId = game.players[3].id
    /\ { i \in Seats(game) : game.players[i].isCurrentTurn } = {1}

----------------------------------------------------------------------------
\* The turn

\* The seat d places after seat a, around the table
SeatAfter(g, a, d) == ((a - 1 + d) % Len(g.players)) + 1

\* The seat can be given the turn: not folded, connected, with chips
CanAct(g, i) ==
    ~g.players[i].folded /\ g.players[i].isConnected /\ g.players[i].chips > 0

\* The first seat after seat a, around the table, that can act; 0 when no
\* other seat can
NextToAct(g, a) ==
    IF \E d \in 1..(Len(g.players) - 1) : CanAct(g, SeatAfter(g, a, d))
    THEN SeatAfter(g, a, Min({ d \in 1..(Len(g.players) - 1) : CanAct(g, SeatAfter(g, a, d)) }))
    ELSE 0

TurnHolders(g) == { i \in Seats(g) : g.players[i].isCurrentTurn }

\* C15: after an accepted action of a betting round that does not close the
\* round (the phase stays), the turn is held by exactly one seat: the first
\* after the actor, around the table, that is not folded, is connected and
\* has chips.
C15_TurnPassesToNextActive ==
    [][ev'.op = "playerAction" /\ game.phase \in Streets /\ game'.phase = game.phase
         => TurnHolders(game') = {NextToAct(game', Actor)}]_vars

\* After an action at a table of three the turn went past a seat that
\* cannot act, to the second seat after the actor
C15_Witness ==
    /\ ev.op = "playerAction"
    /\ game.phase \in Streets
    /\ Len(game.players) = 3
    /\ SeatOf(game, ev.sock) /= 0
    /\ ~CanAct(game, SeatAfter(game, SeatOf(game, ev.sock), 1))
    /\ TurnHolders(game) = {SeatAfter(game, SeatOf(game, ev.sock), 2)}
    /\ game.lastRaisePlayerId /= NullId

----------------------------------------------------------------------------
\* The actions of the seat that holds the turn

\* The answer r of a handler is an error, and nothing is changed
Rejected(r) == r.err /= "" /\ r.g = game /\ r.scheduled = 0

\* Amounts of the raises examined for a seat: none and less, the least, those
\* around the minimum raise and around the stack of the seat
RaiseProbe(g, a) == {-1, 1} \cup RaiseAmounts(g.currentBet, g.players[a].chips)

\* The raise of seat a to amount has turned the game g into h: amount is the
\* bet of the seat and the table bet, the seat is the last aggressor, and the
\* chips the raise adds to the bet of the seat went from its stack to the pot
Raised(g, h, a, amount) ==
    /\ h.players[a].bet = amount
    /\ h.currentBet = amount
    /\ h.lastRaisePlayerId = g.players[a].id
    /\ h.players[a].chips = g.players[a].chips - (amount - g.players[a].bet)
    /\ h.pot = g.pot + (amount - g.players[a].bet)

\* The round of g was closed: h has no table bet, no bets and no aggressor
RoundClosed(h) ==
    /\ h.currentBet = 0
    /\ h.lastRaisePlayerId = NullId
    /\ \A i \in Seats(h) : h.players[i].bet = 0

ClosesAfter(g, a) ==
    \/ NextToAct(g, a) = 0
    \/ /\ g.lastRaisePlayerId /= NullId
       /\ g.players[NextToAct(g, a)].id = g.lastRaisePlayerId

\* C17: a call of the seat holding the turn is never rejected. It moves
\* min(currentBet - bet of the seat, chips of the seat) chips from the stack
\* of the seat to its bet and to the pot; a seat with fewer chips than the
\* difference is left all-in, with no chips and a bet below the table bet.
\* (When the call closes the round the bets are reset before the handler
\* returns, and at the river the pot is paid out: the stack is then compared
\* before the river only, the pot before the river and Showdown only.)
C17_Call ==
    \A sock \in Connected, k \in 1..NShuffles :
        InTurn(sock) =>
            \E r \in {playerAction(sock, "call", 0, k)}, a \in {SeatOf(game, sock)} :
                /\ r.err = ""
                /\ IF ~ClosesAfter(game, a)
                   THEN /\ r.g.players[a].chips = game.players[a].chips - CallChips(game, a)
                        /\ r.g.players[a].bet = game.players[a].bet + CallChips(game, a)
                        /\ r.g.pot = game.pot + CallChips(game, a)
                        /\ game.currentBet - game.players[a].bet > game.players[a].chips
                              => /\ r.g.players[a].chips = 0
                                 /\ r.g.players[a].bet < r.g.currentBet
                   ELSE /\ RoundClosed(r.g)
                        /\ game.phase /= "river"
                              => r.g.players[a].chips = game.players[a].chips - CallChips(game, a)
                        /\ game.phase \notin {"river", "showdown"}
                              => r.g.pot = game.pot + CallChips(game, a)

\* A short call: the small blind of three seats, with 990 chips, has called
\* an all-in of 1000 and is all-in itself with a bet of 995; the big blind
\* is to act
C17_Witness ==
    /\ ev.op = "playerAction" /\ ev.action = "call"
    /\ game.phase = "betting"
    /\ Len(game.players) = 3
    /\ \E a \in Seats(game) :
          /\ a = SeatOf(game, ev.sock)
          /\ game.players[a].chips = 0
          /\ game.players[a].bet > BigBlind
          /\ game.players[a].bet < game.currentBet
          /\ TurnHolders(game) = {SeatAfter(game, a, 1)}

\* C18: a check of the seat holding the turn is accepted exactly when the bet
\* of the seat equals the table bet; otherwise it is answered "Cannot check,
\* must call or raise", the turn does not move and nothing is changed.
C18_CheckOnlyWhenMatched ==
    \A sock \in Connected, k \in 1..NShuffles :
        InTurn(sock) =>
            \E r \in {playerAction(sock, "check", 0, k)} :
                IF game.players[SeatOf(game, sock)].bet = game.currentBet
                THEN r.err = ""
                ELSE r = Result(game, "Cannot check, must call or raise", 0)

----------------------------------------------------------------------------
\* The board and the stacks

\* The number of community cards of a phase
BoardSize(phase) ==
    CASE phase \in {"waiting", "betting"} -> 0
      [] phase = "flop" -> 3
      [] phase = "turn" -> 4
      [] phase \in {"river", "showdown"} -> 5
      [] OTHER -> -1

\* C19: the number of community cards is that of the phase: 0 in Waiting and
\* in the preflop Betting, 3 at the Flop, 4 at the Turn, 5 at the River and at
\* Showdown; no sequence of phase advances deals a street twice.
C19_BoardByPhase == Len(game.communityCards) = BoardSize(game.phase)

\* The turn card of a second hand, dealt when an action closed the flop round
C19_Witness ==
    /\ hands = 2
    /\ game.phase = "turn"
    /\ ev.op = "playerAction"
    /\ Len(game.communityCards) = 4
    /\ Len(game.deck) = DeckSize - 4 - 2 * Len(game.players)

\* C20: every stack, every bet and the pot are at least 0, also after the
\* blinds of a hand are posted by a seat whose stack is less than the blind.
C20_NoNegativeChips ==
    /\ game.pot >= 0
    /\ \A i \in Seats(game) : game.players[i].chips >= 0 /\ game.players[i].bet >= 0

----------------------------------------------------------------------------
\* Connections and the registry

\* The positions of the seats of g
Positions(g) == { g.players[i].position : i \in Seats(g) }

\* The lowest position no seat of g has
FreePosition(g) == Min({ p \in 0..MaxPlayers : p \notin Positions(g) })

\* C21: a joinGame is rejected, with nothing changed, when the session is not
\* in the registry, when the phase is not Waiting, or when the session has the
\* maximum number of seats; an accepted joinGame adds one seat, at the lowest
\* position no other seat has, so the seats are never more than the maximum
\* and their positions are pairwise distinct.
C21_Join ==
    /\ Len(game.players) <= MaxPlayers
    /\ Cardinality(Positions(game)) = Len(game.players)
    /\ \A sock \in Senders :
          \E r \in {joinGame(sock)} :
             IF \/ GameId \notin games
                \/ game.phase /= "waiting"
                \/ Len(game.players) >= MaxPlayers
             THEN Rejected(r)
             ELSE /\ r.err = ""
                  /\ Len(r.g.players) = Len(game.players) + 1
                  /\ SubSeq(r.g.players, 1, Len(game.players)) = game.players
                  /\ r.g.players[Len(r.g.players)].position = FreePosition(game)
                  /\ r.g.players[Len(r.g.players)].id = sock

\* A full table in Waiting, the last seat just added: the next joinGame is
\* refused
C21_Witness ==
    /\ ev.op = "joinGame"
    /\ GameId \in games
    /\ game.phase = "waiting"
    /\ Len(game.players) = MaxPlayers
    /\ Positions(game) = 0..(MaxPlayers - 1)
    /\ \E sock \in Senders : joinGame(sock).err = "Game is full"

\* C22: when the connection of the seat that holds the turn disconnects in a
\* betting phase, the seat is marked disconnected and the turn goes to the
\* next seat, around the table, that is not folded, is connected and has
\* chips; after the disconnect the disconnected seat does not hold the turn.
\* (Stated for the disconnects that leave a connected seat, so that the
\* session stays in the registry.)
C22_DisconnectPassesTurn ==
    \A sock \in Connected :
       InTurn(sock) /\ game.phase \in Streets =>
          \E h \in {disconnect(game, sock)}, a \in {SeatOf(game, sock)} :
             (\E i \in Seats(h) : h.players[i].isConnected) =>
             /\ ~h.players[a].isConnected
             /\ ~h.players[a].isCurrentTurn
             /\ TurnHolders(h) = {NextToAct(h, a)}

\* The seat of connection sock after its disconnect and a reconnectToGame of
\* the connection to for the same player id: the answer of the handler
RoundTrip(sock, to) == reconnectIn(disconnect(game, sock), games, to, sock)

\* The disconnect of sock leaves a connected seat: the session stays in the
\* registry
LeavesConnected(sock) ==
    \E i \in Seats(game) : disconnect(game, sock).players[i].isConnected

\* C23 as the specification words it: for every seat, a disconnect followed
\* by a reconnect with the same identity leaves isCurrentTurn, the hole cards
\* and the chips of the seat as they were, the seat bound to the new
\* connection.
C23_RoundTripRestoresAll ==
    \A sock \in Connected :
       Routed(sock) /\ SeatOf(game, sock) /= 0 =>
          \E r \in {RoundTrip(sock, nextSock)}, a \in {SeatOf(game, sock)} :
             /\ r.err = ""
             /\ r.g.players[a].id = nextSock
             /\ r.g.players[a].isConnected
             /\ r.g.players[a].cards = game.players[a].cards
             /\ r.g.players[a].chips = game.players[a].chips
             /\ r.g.players[a].isCurrentTurn = game.players[a].isCurrentTurn

\* C23 (amended): when the disconnect leaves a connected seat, a disconnect
\* followed by a reconnect with the same identity leaves the hole cards and
\* the chips of the seat as they were, the seat connected and bound to the
\* new connection; the seat holds the turn afterwards exactly when it held it
\* before and the disconnect found no other seat to pass it to.
C23_RoundTrip ==
    \A sock \in Connected :
       Routed(sock) /\ SeatOf(game, sock) /= 0 /\ LeavesConnected(sock) =>
          \E r \in {RoundTrip(sock, nextSock)}, a \in {SeatOf(game, sock)} :
             /\ r.err = ""
             /\ r.g.players[a].id = nextSock
             /\ r.g.players[a].isConnected
             /\ r.g.players[a].cards = game.players[a].cards
             /\ r.g.players[a].chips = game.players[a].chips
             /\ r.g.players[a].isCurrentTurn =
                   (/\ game.players[a].isCurrentTurn
                    /\ NextToAct(disconnect(game, sock), a) = 0)

\* A seat with cards in a betting phase was just reconnected: the connection
\* of its player id is gone, the seat is bound to the new one
C23_Witness ==
    /\ ev.op = "reconnectToGame"
    /\ game.phase \in Streets
    /\ ev.playerId \notin Connected
    /\ SeatOf(game, ev.sock) /= 0
    /\ SeatOf(game, ev.playerId) = 0
    /\ Len(game.players[SeatOf(game, ev.sock)].cards) = 2
    /\ game.players[SeatOf(game, ev.sock)].isConnected

\* The player ids a reconnectToGame is tried with: every connection id there
\* has been, and one there has not
PlayerIds == 1..(MaxSockets + 1)

\* C24: a reconnectToGame is rejected, with nothing changed, when the session
\* is not in the registry or no seat has the player id; an accepted one
\* changes only the connection id and the connected flag of that seat: the
\* chips, cards, bet, folded flag and isCurrentTurn of every seat, the pot, the
\* table bet and the phase stay.
C24_Reconnect ==
    \A sock \in Senders, playerId \in PlayerIds :
       \E r \in {reconnectToGame(sock, playerId)}, a \in {SeatOf(game, playerId)} :
          IF GameId \notin games \/ a = 0
          THEN Rejected(r)
          ELSE /\ r.err = ""
               /\ r.g.players[a].id = sock
               /\ r.g.players[a].isConnected
               /\ Len(r.g.players) = Len(game.players)
               /\ \A i \in Seats(game) :
                     /\ r.g.players[i].chips = game.players[i].chips
                     /\ r.g.players[i].cards = game.players[i].cards
                     /\ r.g.players[i].bet = game.players[i].bet
                     /\ r.g.players[i].folded = game.players[i].folded
                     /\ r.g.players[i].isCurrentTurn = game.players[i].isCurrentTurn
                     /\ i /= a => r.g.players[i] = game.players[i]
               /\ r.g.pot = game.pot
               /\ r.g.currentBet = game.currentBet
               /\ r.g.phase = game.phase
               /\ r.g.communityCards = game.communityCards

\* A seat that had posted a blind was just reconnected, after its connection
\* was lost, and another reconnectToGame would find no seat
C24_Witness ==
    /\ ev.op = "reconnectToGame"
    /\ GameId \in games
    /\ game.pot > 0
    /\ SeatOf(game, ev.sock) /= 0
    /\ game.players[SeatOf(game, ev.sock)].bet > 0
    /\ \E playerId \in PlayerIds :
          reconnectToGame(ev.sock, playerId).err = "Player not found in game"

\* The disconnect handler for any connection id: nothing is done for one that
\* is not in the connection Map or whose game is not in the registry
disconnectHandler(sock) ==
    IF Routed(sock) THEN disconnect(game, sock) ELSE game

\* C25: a reconnectToGame for a seat that is connected changes nothing in the
\* session, the connection bound to the seat included, and a disconnect for a
\* seat that is disconnected changes nothing.
C25_Idempotent ==
    /\ \A sock \in Senders, playerId \in PlayerIds :
          \E a \in {SeatOf(game, playerId)} :
             a /= 0 /\ game.players[a].isConnected =>
                reconnectToGame(sock, playerId).g = game
    /\ \A sock \in 1..MaxSockets :
          \E a \in {SeatOf(game, sock)} :
             a /= 0 /\ ~game.players[a].isConnected =>
                disconnectHandler(sock) = game

\* The session was created (the game object has its first seat)
Created == game.players /= <<>>

\* C26: the session is removed from the registry exactly when a disconnect
\* leaves no connected seat: a session in the registry has a connected seat,
\* a session that was removed has none, and once every connection that held a
\* seat has disconnected (the connection Map is empty) the session is not in
\* the registry.
C26_Registry ==
    Created =>
       /\ GameId \in games => \E i \in Seats(game) : game.players[i].isConnected
       /\ GameId \notin games => \A i \in Seats(game) : ~game.players[i].isConnected
       /\ Connected = {} => GameId \notin games

\* The seats of g that are connected
ConnectedSeats(g) == { i \in Seats(g) : g.players[i].isConnected }

\* The timer callback has begun a hand on g: h has g dealt and in betting
Begun(g, h) == h.phase = "betting" /\ h /= g

\* C27: when a restart timer fires, it begins a hand only if the phase is
\* Waiting and at least 2 seats are connected; otherwise it leaves the
\* session as it is, no cards dealt and no blinds posted.
C27_TimerNeedsTwoConnected ==
    timers > 0 =>
       \E h \in {restartTimer(game)} :
          IF game.phase = "waiting" /\ Cardinality(ConnectedSeats(game)) >= 2
          THEN Begun(game, h)
          ELSE h = game

\* C28: when the session has been removed from the registry, no seat being
\* connected, before its pending restart timer fires, the timer does nothing:
\* no field of the session changes, no cards are dealt, no blinds are posted.
C28_TimerAfterDestroy ==
    timers > 0 /\ Created /\ GameId \notin games => restartTimer(game) = game

\* The step begins a hand: from Waiting to the first betting round
BeginsHand == game.phase = "waiting" /\ game'.phase = "betting"

\* C29: every hand is dealt with the dealer at the dealer index the session
\* has when the hand begins, whether the timer or a startGame begins it, and
\* the reset after a hand moves the dealer index one seat on, so that the
\* dealer of each hand is one seat after the dealer of the hand before.
C29_DealerRotation ==
    [][/\ BeginsHand => game'.dealerIndex = game.dealerIndex
       /\ IsReset => game'.dealerIndex = (game.dealerIndex + 1) % Len(game.players)]_vars

----------------------------------------------------------------------------
\* Dealing, settlement and the turn

\* The cards the next phase advance of g takes from the deck
CardsToDeal(g) ==
    CASE g.phase = "betting" -> IF Len(g.communityCards) = 0 THEN 3 ELSE 0
      [] g.phase = "flop" -> IF Len(g.communityCards) = 3 THEN 1 ELSE 0
      [] g.phase = "turn" -> IF Len(g.communityCards) = 4 THEN 1 ELSE 0
      [] g.phase = "river" -> IF Len(g.communityCards) < 5
                              THEN 5 - Len(g.communityCards) ELSE 0
      [] OTHER -> 0

\* A hand can be begun on g: by a startGame, or by a pending restart timer
CanBegin(g) == g.phase = "waiting" /\ Len(g.players) >= 2

\* C31: dealing never fails: when a startGame or the restart timer deals the
\* hole cards, or a phase advance deals community cards, the deck has at
\* least that many cards (8 seats with 2 cards and 5 community cards fit in a
\* deck), and at settlement every hand given to the evaluator has at least 5
\* cards.
C31_DealingNeverFails ==
    /\ \A k \in 1..NShuffles : 2 * MaxPlayers + 5 <= Len(createDeck(k))
    /\ CanBegin(game) =>
          /\ \A k \in 1..NShuffles : 2 * Len(game.players) <= Len(createDeck(k))
          /\ timers > 0 => 2 * Len(game.players) <= Len(game.deck)
    /\ CardsToDeal(game) <= Len(game.deck)
    /\ game.phase = "river" =>
          \E h \in {advancePhase(resetBets(game), 1)} :
             \A i \in Seats(h) :
                ~h.players[i].folded =>
                   Len(h.players[i].cards \o h.communityCards) >= 5

\* The second hand of a full table, begun by the restart timer on the deck of
\* the reset, was settled on the hands: 2 cards were dealt to each seat and 5
\* to the board
C31_Witness ==
    /\ game.phase = "showdown"
    /\ hands = MaxHands
    /\ game.dealerIndex /= 0
    /\ Len(game.players) = MaxSockets
    /\ Len(game.communityCards) = 5
    /\ Len(game.deck) = DeckSize - 2 * MaxSockets - 5
    /\ \E i \in Seats(game) :
          /\ game.players[i].isWinner
          /\ game.players[i].handDescription /= "Win by default (all others folded)"

\* C32: chips are neither made nor lost: the pot plus the chips of all seats
\* (a bet is in the pot from when it is made) is 1000 times the number of
\* seats in every reachable state.
C32_ChipsConserved ==
    game.pot + SumChips(game) = InitialChips * Len(game.players)

\* The seats of g that can be given the turn
EligibleSeats(g) == { i \in Seats(g) : CanAct(g, i) }

\* The first seat to act of a round of g: the first after the dealer that can
\* act
FirstSeat(g) == NextToAct(g, g.dealerIndex + 1)

\* The step is the check that ends a check-around of two seats in a round
\* without aggressor: the first seat to act has checked (the last accepted
\* event), and now the other eligible seat checks
SecondCheck ==
    /\ ev'.op = "playerAction" /\ ev'.action = "check"
    /\ ev.op = "playerAction" /\ ev.action = "check"
    /\ game.phase \in {"flop", "turn", "river"}
    /\ game.lastRaisePlayerId = NullId
    /\ game.currentBet = 0
    /\ Cardinality(EligibleSeats(game)) = 2
    /\ SeatOf(game, ev.sock) = FirstSeat(game)
    /\ Actor \in EligibleSeats(game) \ {FirstSeat(game)}

\* C33: a check-around closes the round: in a round of the flop, turn or
\* river that began without aggressor, once every eligible seat has checked
\* once the phase advances. (Stated for two eligible seats.)
C33_CheckAroundCloses ==
    [][SecondCheck => game'.phase = NextStreet(game.phase)]_vars

\* C34: in a betting phase, a seat that holds the turn is not folded, is
\* connected and has chips: the seat that must act can act.
C34_TurnHolderCanAct ==
    game.phase \in Streets => \A i \in TurnHolders(game) : CanAct(game, i)

\* The seat of the last raiser was reconnected by the last accepted event:
\* its connection was lost, the new connection asked for the player id the
\* aggressor is recorded under, within the betting round
AggressorReconnected ==
    /\ ev.op = "reconnectToGame"
    /\ game.phase \in Streets
    /\ ev.playerId = game.lastRaisePlayerId
    /\ ev.playerId \notin Connected
    /\ SeatOf(game, ev.sock) /= 0
    /\ CanAct(game, SeatOf(game, ev.sock))
    /\ ~game.players[SeatOf(game, ev.sock)].isCurrentTurn

\* C35: the last aggressor keeps its role across a reconnect: when its seat,
\* which did not hold the turn, was disconnected and reconnected under a new
\* connection id in the betting round, the round closes when the action
\* comes back to that seat (here: by the call of the seat before it).
C35_AggressorAcrossReconnect ==
    [][(/\ AggressorReconnected
        /\ ev'.op = "playerAction" /\ ev'.action = "call"
        /\ NextToAct(game, Actor) = SeatOf(game, ev.sock))
          => game'.phase = NextStreet(game.phase)]_vars

\* C36: a playerAction received in Waiting or in Showdown has no effect on
\* the game: the pot, the chips, bet and folded flag of every seat and the
\* phase stay.
C36_NoActionOutsideHand ==
    game.phase \in {"waiting", "showdown"} =>
       \A sock \in Senders, action \in Actions, k \in 1..NShuffles :
          \A amount \in Amounts(sock, action) :
             \E r \in {playerAction(sock, action, amount, k)} :
                /\ r.g.pot = game.pot
                /\ r.g.phase = game.phase
                /\ \A i \in Seats(game) :
                      /\ r.g.players[i].chips = game.players[i].chips
                      /\ r.g.players[i].bet = game.players[i].bet
                      /\ r.g.players[i].folded = game.players[i].folded

\* The seats of g marked as winner
Winners(g) == { i \in Seats(g) : g.players[i].isWinner }

\* C37: every entry into Showdown settles the pot: right after the step that
\* enters Showdown the pot is 0 and exactly one seat is marked winner, a seat
\* that was not folded.
C37_ShowdownSettles ==
    [][(game.phase /= "showdown" /\ game'.phase = "showdown")
          => /\ game'.pot = 0
             /\ Cardinality(Winners(game')) = 1
             /\ \A i \in Winners(game') : ~game'.players[i].folded]_vars

\* C38: a connection is bound to at most one seat: the connection ids of the
\* seats of a session are pairwise distinct, and a joinGame from a connection
\* that holds a seat adds no seat.
C38_OneSeatPerConnection ==
    /\ \A i \in Seats(game), j \in Seats(game) :
          i /= j => game.players[i].id /= game.players[j].id
    /\ \A sock \in Connected :
          SeatOf(game, sock) /= 0 => joinGame(sock).g = game

\* The hand h was begun on g by one deal: every seat has 2 hole cards, taken
\* from a full deck, and the two blinds were paid into the pot once
DealtOnce(g, h) ==
    /\ h.phase = "betting"
    /\ \A i \in Seats(h) : Len(h.players[i].cards) = 2
    /\ Len(h.deck) = DeckSize - 2 * Len(h.players)
    /\ SumChips(h) = SumChips(g) - (SmallBlind + BigBlind)
    /\ h.pot = g.pot + SmallBlind + BigBlind

\* C39: a startGame and the pending restart timer of a Waiting period never
\* both begin a hand: whichever of the two comes first deals the hole cards
\* and takes the blinds once, and from then on (the phase is not Waiting) the
\* other one, and any older timer still pending, changes nothing.
C39_StartOrTimer ==
    /\ CanBegin(game) =>
          /\ DealtOnce(game, restartTimer(game))
          /\ \A sock \in Senders, k \in 1..NShuffles :
                Routed(sock) => DealtOnce(game, startGameHandler(sock, k).g)
    /\ game.phase /= "waiting" =>
          /\ restartTimer(game) = game
          /\ \A sock \in Senders, k \in 1..NShuffles :
                Rejected(startGameHandler(sock, k))

\* The second hand was begun by a startGame (dealer index 0) while the timer
\* of the reset was pending, and the timer has then fired during the hand
C39_Witness ==
    /\ ev.op = "timer"
    /\ game.phase = "betting"
    /\ hands = MaxHands
    /\ game.dealerIndex = 0
    /\ \A i \in Seats(game) : Len(game.players[i].cards) = 2

----------------------------------------------------------------------------
\* The hand evaluator on its own: compareHands evaluates two 5-card hands

\* card id of the rank value v (2..14) in the suit numbered suit
cardOf(v, suit) == suit * 13 + (IF v = 14 THEN 0 ELSE v - 1)

\* Rank values of the hands compared: low cards with the ace, and high cards
LowRanks == {2, 3, 4, 5, 6, 14}
HighRanks == {10, 11, 12, 13, 14}

\* Ascending lists of 5 rank values with at most 4 of a rank
RankLists(R) ==
    { rs \in R \X R \X R \X R \X R :
        /\ rs[1] <= rs[2] /\ rs[2] <= rs[3] /\ rs[3] <= rs[4] /\ rs[4] <= rs[5]
        /\ rs[1] /= rs[5] }
AllRankLists == RankLists(LowRanks) \cup RankLists(HighRanks)

\* The 5 cards of a rank list: suits differ between neighbours (no flush, and
\* equal ranks get different suits), or all of one suit (distinct ranks)
MixedHand(rs) ==
    <<cardOf(rs[1], 1), cardOf(rs[2], 2), cardOf(rs[3], 3), cardOf(rs[4], 0), cardOf(rs[5], 1)>>
FlushHand(rs) ==
    <<cardOf(rs[1], 2), cardOf(rs[2], 2), cardOf(rs[3], 2), cardOf(rs[4], 2), cardOf(rs[5], 2)>>
EvalHands ==
    { MixedHand(rs) : rs \in AllRankLists }
    \cup { FlushHand(rs) : rs \in { x \in AllRankLists : \A i \in 1..4 : x[i] < x[i + 1] } }

\* The multiset of rank values of a hand, as an ascending list
RanksOf(cards) ==
    SortAsc(<<rankValues(cards[1]), rankValues(cards[2]), rankValues(cards[3]),
              rankValues(cards[4]), rankValues(cards[5])>>)

CompareHands(hand1, hand2) ==
    /\ handA = <<>>
    /\ handA' = hand1
    /\ handB' = hand2
    /\ evalA' = evaluateHand(hand1)
    /\ evalB' = evaluateHand(hand2)
    /\ UNCHANGED <<gameVars, nextSock, hands, acts, ev>>

\* One comparison per behaviour
ToCompare == IF handA = <<>> THEN EvalHands ELSE {}

NextEval == \E hand1 \in ToCompare, hand2 \in ToCompare : CompareHands(hand1, hand2)

SpecEval == Init /\ [][NextEval]_vars

Compared == handA /= <<>>

----------------------------------------------------------------------------
\* C9: a hand of a higher category has a strictly greater value than any hand
\* of a lower category (Royal Flush > Straight Flush > Four of a Kind >
\* Full House > Flush > Straight > Three of a Kind > Two Pair > One Pair >
\* High Card).
C9_CategoryOrder ==
    (Compared /\ CategoryOf(evalA.rank) > CategoryOf(evalB.rank))
        => evalA.value > evalB.value

\* The elements of a set of numbers, highest first
RECURSIVE SortedDesc(_)
SortedDesc(S) == IF S = {} THEN <<>> ELSE <<Max(S)>> \o SortedDesc(S \ {Max(S)})

\* The tie-break ranks of a hand: its distinct ranks, those held more often
\* first and then the higher first, each as count * 100 + rank (the ace of
\* the 5-high straight counts as 1)
TieBreakRanks(cards) ==
    LET rs == IF RanksOf(cards) = <<2, 3, 4, 5, 14>> THEN <<1, 2, 3, 4, 5>> ELSE RanksOf(cards)
        count(r) == Cardinality({ i \in 1..5 : rs[i] = r })
    IN SortedDesc({ count(rs[i]) * 100 + rs[i] : i \in 1..5 })
LexLess(a, b) ==
    \E i \in 1..Len(a) : a[i] < b[i] /\ \A j \in 1..(i - 1) : a[j] = b[j]

\* C10: for two hands of the same category the values compare as the
\* tie-break ranks compare lexicographically, and the values are equal only
\* when the hands have the same multiset of ranks.
C10_TieBreak ==
    (Compared /\ evalA.rank = evalB.rank)
        => /\ LexLess(TieBreakRanks(handA), TieBreakRanks(handB)) => evalA.value < evalB.value
           /\ evalA.value = evalB.value => RanksOf(handA) = RanksOf(handB)

\* The 5 cards are not all of one suit
Mixed(cards) == \E i \in 2..5 : Suit(cards[i]) /= Suit(cards[1])
\* The wheel, and the straights with the ace high or without an ace
IsWheel(cards) == RanksOf(cards) = <<2, 3, 4, 5, 14>> /\ Mixed(cards)
IsHigherStraight(cards) ==
    /\ \A i \in 2..5 : RanksOf(cards)[i] = RanksOf(cards)[i - 1] + 1
    /\ Mixed(cards)

\* The hand has three cards of one rank and two cards of two other ranks
IsThreeOfAKind(cards) ==
    \E i \in 1..3 :
       /\ RanksOf(cards)[i] = RanksOf(cards)[i + 2]
       /\ Cardinality({ RanksOf(cards)[j] : j \in 1..5 }) = 3

\* C30: the wheel A-2-3-4-5, not all of one suit, is a Straight; its value is
\* strictly below the value of every other straight (6-high to ace-high) and
\* strictly above the value of every Three of a Kind.
C30_Wheel ==
    (Compared /\ IsWheel(handA))
        => /\ evalA.rank = "Straight"
           /\ IsHigherStraight(handB) => evalA.value < evalB.value
           /\ IsThreeOfAKind(handB) => evalA.value > evalB.value

\* The wheel was compared with the 6-high straight, which has the greater value
C30_Witness ==
    /\ Compared
    /\ IsWheel(handA)
    /\ RanksOf(handB) = <<2, 3, 4, 5, 6>>
    /\ evalB.rank = "Straight"
    /\ evalA.value < evalB.value

====
